---------------------------- MODULE Spec2Model ----------------------------
(***************************************************************************)
(* A model of src/src/main.rs: Song::write renders a multi-track score     *)
(* into a RIFF/WAVE byte buffer and writes it to a file.                   *)
(*                                                                         *)
(* Numbers.  TLC's integers are 32-bit, the program's are u32, usize and   *)
(* f64.  A natural number of any size is therefore kept as the set of the  *)
(* positions of its 1 bits ({0, 3} is 9), and an f64 as a sign and such a  *)
(* set whose positions may be negative ({-1} is 0.5).  Every f64 operation *)
(* computes the exact result and rounds it to 53 significant bits, ties to *)
(* even, as IEEE-754 binary64 does.  Exponent overflow, subnormals, NaN    *)
(* and the sign of zero are outside the model: its inputs stay far from    *)
(* the exponent limits, and a zero of either sign casts to integer 0.      *)
(***************************************************************************)
EXTENDS Integers, Sequences, FiniteSets

----------------------------------------------------------------------------
(* Naturals as sets of bit positions                                       *)

RECURSIVE Pow2(_)
Pow2(k) == IF k = 0 THEN 1 ELSE 2 * Pow2(k - 1)

\* The bit set of a small natural n (n < 2^31).
ToBits(n) == {k \in 0..30 : (n \div Pow2(k)) % 2 = 1}

\* The (small) natural a bit set within 0..30 stands for.
RECURSIVE FromBits(_)
FromBits(S) ==
    IF S = {} THEN 0
    ELSE LET k == CHOOSE x \in S : TRUE
         IN  Pow2(k) + FromBits(S \ {k})

MaxOf(S) == CHOOSE x \in S : \A y \in S : y <= x
MinOf(S) == CHOOSE x \in S : \A y \in S : x <= y

BXor(A, B) == (A \ B) \cup (B \ A)
Shl(A, k) == {x + k : x \in A}

\* A + B
RECURSIVE BAdd(_, _)
BAdd(A, B) == IF B = {} THEN A ELSE BAdd(BXor(A, B), Shl(A \cap B, 1))

\* A - B, for A >= B
RECURSIVE BSub(_, _)
BSub(A, B) == IF B = {} THEN A ELSE BSub(BXor(A, B), Shl(B \ A, 1))

\* A < B
BLt(A, B) == A # B /\ MaxOf(BXor(A, B)) \in B
BLe(A, B) == A = B \/ BLt(A, B)

\* A * B, by shift and add over the bits of A
RECURSIVE BMulLoop(_, _)
BMulLoop(A, B) ==
    IF A = {} THEN {}
    ELSE LET k == CHOOSE x \in A : TRUE
         IN  BAdd(Shl(B, k), BMulLoop(A \ {k}, B))
BMul(A, B) == IF Cardinality(A) <= Cardinality(B) THEN BMulLoop(A, B)
              ELSE BMulLoop(B, A)

\* Long division: the bits j..0 of floor(rem / B), and what is left of rem.
RECURSIVE BDivLoop(_, _, _, _)
BDivLoop(rem, B, j, q) ==
    IF j < 0 THEN [q |-> q, rem |-> rem]
    ELSE LET c == Shl(B, j)
         IN  IF BLe(c, rem) THEN BDivLoop(BSub(rem, c), B, j - 1, q \cup {j})
             ELSE BDivLoop(rem, B, j - 1, q)

----------------------------------------------------------------------------
(* f64                                                                     *)

\* Round an exact magnitude to 53 significant bits, ties to even.
Round53(M) ==
    IF M = {} THEN {}
    ELSE LET cut  == MaxOf(M) - 52
             keep == {x \in M : x >= cut}
             up   == (cut - 1) \in M
                     /\ (cut \in M \/ \E x \in M : x < cut - 1)
         IN  IF up THEN BAdd(keep, {cut}) ELSE keep

F64(neg, bits) == [neg |-> (neg /\ bits # {}), bits |-> bits]
FZero == F64(FALSE, {})
FOne == F64(FALSE, {0})
FNeg(a) == F64(~a.neg, a.bits)
\* i as f64, for a natural given as a bit set of at most 53 bits
NatToF(S) == F64(FALSE, S)
IntToF(n) == IF n < 0 THEN F64(TRUE, ToBits(-n)) ELSE F64(FALSE, ToBits(n))

FLt(a, b) ==
    IF a.neg # b.neg THEN a.neg
    ELSE IF a.neg THEN BLt(b.bits, a.bits) ELSE BLt(a.bits, b.bits)
FLe(a, b) == a = b \/ FLt(a, b)

\* a + b
FAdd(a, b) ==
    IF a.neg = b.neg THEN F64(a.neg, Round53(BAdd(a.bits, b.bits)))
    ELSE IF BLt(a.bits, b.bits) THEN F64(b.neg, Round53(BSub(b.bits, a.bits)))
    ELSE F64(a.neg, Round53(BSub(a.bits, b.bits)))
FSub(a, b) == FAdd(a, FNeg(b))

\* a * b
FMul(a, b) == F64(a.neg # b.neg, Round53(BMul(a.bits, b.bits)))

\* a / b, b # 0: the quotient to 56 bits and a sticky bit, then rounded.
FDiv(a, b) ==
    IF a.bits = {} THEN FZero
    ELSE LET k  == 56 + MaxOf(b.bits) - MaxOf(a.bits)
             d  == BDivLoop(Shl(a.bits, k), b.bits,
                            MaxOf(a.bits) + k - MaxOf(b.bits), {})
             st == IF d.rem = {} THEN {} ELSE {-1}
         IN  F64(a.neg # b.neg, Round53(Shl(d.q \cup st, -k)))

\* f64::floor, f64::ceil, f64::fract
FFloor(a) ==
    LET int  == {x \in a.bits : x >= 0}
        frac == {x \in a.bits : x < 0}
    IN  IF a.neg /\ frac # {} THEN F64(TRUE, Round53(BAdd(int, {0})))
        ELSE F64(a.neg, int)
FCeil(a) == FNeg(FFloor(FNeg(a)))
FFract(a) == F64(a.neg, {x \in a.bits : x < 0})

\* f64::clamp(lo, hi)
FClamp(a, lo, hi) == IF FLt(a, lo) THEN lo ELSE IF FLt(hi, a) THEN hi ELSE a


----------------------------------------------------------------------------
(* Casts and u32 arithmetic                                                *)

U32Max == 0..31
\* f64 as u32 / as usize: toward zero, saturating; a negative value gives 0.
FToU32(a) ==
    LET int == {x \in a.bits : x >= 0}
    IN  IF a.neg THEN {} ELSE IF \E x \in int : x >= 32 THEN U32Max ELSE int
FToUsize(a) ==
    LET int == {x \in a.bits : x >= 0}
    IN  IF a.neg THEN {} ELSE IF \E x \in int : x >= 64 THEN 0..63 ELSE int
\* f64 as i16: toward zero, saturating.
FToI16(a) ==
    LET int == {x \in a.bits : x >= 0}
    IN  IF \E x \in int : x >= 15
        THEN (IF a.neg THEN -32768 ELSE 32767)
        ELSE (IF a.neg THEN -FromBits(int) ELSE FromBits(int))

\* A u32 operation: the wrapped result, and whether the exact one overflows.
U32Wrap(P) == {x \in P : x < 32}
U32Overflows(P) == \E x \in P : x >= 32

\* to_le_bytes
ByteOf(S, j) == FromBits(Shl({x \in S : 8 * j <= x /\ x < 8 * j + 8}, -(8 * j)))
U32LeBytes(S) == <<ByteOf(S, 0), ByteOf(S, 1), ByteOf(S, 2), ByteOf(S, 3)>>
U16LeBytes(n) == <<n % 256, n \div 256>>
I16LeBytes(v) == U16LeBytes(IF v < 0 THEN v + 65536 ELSE v)

----------------------------------------------------------------------------
(* merge and its two merge functions                                       *)

overwrite(curr, new) == new
\* A merge function that drops what is there; a wrong variant of add.
add_Overwriting(curr, new) == new
add(curr, new) == FAdd(curr, new)

\* A check that lets a shorter dst through; a wrong variant of merge_mismatch.
merge_mismatch_DstLonger(dst, src) == Len(dst) > Len(src)

\* The length check of merge: TRUE when merge panics.
merge_mismatch(dst, src) == Len(dst) # Len(src)

\* merge_fn, a function pointer in the source, chosen by name.
Apply(fn, curr, new) == IF fn = "add" THEN add(curr, new) ELSE overwrite(curr, new)

\* merge(dst, src, merge_fn): dst afterwards, or the panic.
merge(dst, src, merge_fn) ==
    IF merge_mismatch(dst, src) THEN [panic |-> TRUE, dst |-> dst]
    ELSE [panic |-> FALSE,
          dst |-> [k \in 1..Len(dst) |-> Apply(merge_fn, dst[k], src[k])]]

\* merge applied to the slice vec[start .. start+len) (0-based, as in the
\* source).  Taking the slice panics when it does not lie in vec.
merge_slice(vec, start, src, merge_fn) ==
    IF start + Len(src) > Len(vec) THEN [panic |-> TRUE, vec |-> vec]
    ELSE LET m == merge(SubSeq(vec, start + 1, start + Len(src)), src, merge_fn)
         IN  [panic |-> m.panic,
              vec |-> IF m.panic THEN vec
                      ELSE [k \in 1..Len(vec) |->
                              IF k > start /\ k <= start + Len(src)
                              THEN m.dst[k - start] ELSE vec[k]]]

\* The closure write_slice: merge the slice in at the cursor, advance it.
write_slice(fd, cur, slice) ==
    LET m == merge_slice(fd, cur, slice, "overwrite")
    IN  [panic |-> m.panic, file_data |-> m.vec,
         i |-> IF m.panic THEN cur ELSE cur + Len(slice)]


----------------------------------------------------------------------------
(* The oscillators (main.rs 137-150)                                       *)

\* The f64 whose magnitude is (hi * 2^26 + lo) * 2^e.
Dbl(neg, hi, lo, e) == F64(neg, Shl(ToBits(hi), 26 + e) \cup Shl(ToBits(lo), e))

FTwo == F64(FALSE, {1})
PI == Dbl(FALSE, 13176794, 42501539, -48)

\* f64::sin is the platform's libm: its results at the arguments the model's
\* notes reach, as <<argument, sin(argument)>>.
SinTable == {
    <<Dbl(FALSE, 70276238, 2978661, -52), Dbl(FALSE, 58117981, 2893397, -52)>>,
    <<Dbl(FALSE, 13176794, 42501539, -49), Dbl(FALSE, 0, 1, 0)>>,
    <<Dbl(FALSE, 70276238, 2978661, -51), Dbl(FALSE, 116235962, 5786795, -53)>>,
    <<Dbl(FALSE, 39530383, 60395753, -50), Dbl(FALSE, 94906265, 41892813, -53)>>,
    <<Dbl(FALSE, 13176794, 42501539, -48), Dbl(FALSE, 74025356, 51665927, -105)>>,
    <<Dbl(FALSE, 70276238, 2978661, -50), Dbl(TRUE, 14529495, 17500565, -50)>>,
    <<Dbl(FALSE, 39530383, 60395753, -49), Dbl(TRUE, 0, 1, 0)>>,
    <<Dbl(FALSE, 87845297, 37277759, -50), Dbl(TRUE, 58117981, 2893397, -52)>>,
    <<Dbl(FALSE, 13176794, 42501539, -47), Dbl(TRUE, 74025356, 51665927, -104)>>,
    <<Dbl(FALSE, 118591151, 46969531, -50), Dbl(FALSE, 94906265, 41892811, -53)>>,
    <<Dbl(FALSE, 61491708, 19383545, -49), Dbl(FALSE, 29058990, 35001131, -51)>>,
    <<Dbl(FALSE, 65883973, 11181103, -49), Dbl(FALSE, 0, 1, 0)>>,
    <<Dbl(FALSE, 70276238, 2978661, -49), Dbl(FALSE, 116235962, 5786799, -53)>>,
    <<Dbl(FALSE, 39530383, 60395753, -48), Dbl(FALSE, 55519017, 38749445, -103)>>,
    <<Dbl(FALSE, 92237562, 29075317, -49), Dbl(TRUE, 0, 1, 0)>>,
    <<Dbl(FALSE, 46118781, 14537659, -48), Dbl(TRUE, 0, 1, 0)>>,
    <<Dbl(FALSE, 49412979, 58717475, -48), Dbl(TRUE, 94906265, 41892821, -53)>>,
    <<Dbl(FALSE, 13176794, 42501539, -46), Dbl(TRUE, 74025356, 51665927, -103)>>,
    <<Dbl(FALSE, 118591151, 46969531, -49), Dbl(FALSE, 0, 1, 0)>>,
    <<Dbl(FALSE, 65883973, 11181103, -48), Dbl(FALSE, 92531695, 64582409, -103)>>,
    <<Dbl(FALSE, 8647271, 32085939, -45), Dbl(TRUE, 47453132, 54500839, -52)>>,
    <<Dbl(FALSE, 39530383, 60395753, -47), Dbl(TRUE, 55519017, 38749445, -102)>>,
    <<Dbl(FALSE, 92237562, 29075317, -48), Dbl(FALSE, 32386093, 39381059, -101)>>,
    <<Dbl(FALSE, 49412979, 58717475, -47), Dbl(TRUE, 0, 1, 0)>>,
    <<Dbl(FALSE, 13176794, 42501539, -45), Dbl(TRUE, 74025356, 51665927, -102)>>,
    <<Dbl(FALSE, 118591151, 46969531, -48), Dbl(FALSE, 10409815, 53402865, -99)>>,
    <<Dbl(FALSE, 8647271, 32085939, -44), Dbl(FALSE, 0, 1, 0)>>,
    <<Dbl(FALSE, 39530383, 60395753, -46), Dbl(TRUE, 55519017, 38749445, -101)>>
}
Sin(x) == IF x = FZero THEN FZero
          ELSE (CHOOSE p \in SinTable : p[1] = x)[2]

\* floor(t * 2.0 * freq) as u32 % 2 == 0
SquareEven(t, freq) == 0 \notin FToU32(FFloor(FMul(FMul(t, FTwo), freq)))

\* The match on the track's instrument: the waveform at time t.
Oscillator(instrument, t, freq) ==
    CASE instrument = "Sine"   -> Sin(FMul(FMul(FMul(t, FTwo), PI), freq))
      [] instrument = "Square" -> IF SquareEven(t, freq) THEN FOne ELSE FNeg(FOne)
      [] instrument = "Saw"    -> FSub(FMul(FTwo, FFract(FMul(t, freq))), FOne)

----------------------------------------------------------------------------
(* The sizes (main.rs 88-107)                                              *)

\* The notes in the order the two nested loops visit them, each with its
\* track's instrument.
RECURSIVE Contribs(_)
Contribs(tracks) ==
    IF tracks = <<>> THEN <<>>
    ELSE [k \in 1..Len(Head(tracks).notes) |->
             [instrument |-> Head(tracks).instrument,
              note |-> Head(tracks).notes[k]]]
         \o Contribs(Tail(tracks))

end_time(note) == FAdd(note.start, note.duration)

\* The loop of lines 88-96 over the notes cs, from the running maximum tl.
RECURSIVE TotalLengthFrom(_, _)
TotalLengthFrom(cs, tl) ==
    IF cs = <<>> THEN tl
    ELSE TotalLengthFrom(Tail(cs),
             IF FLt(tl, end_time(Head(cs).note)) THEN end_time(Head(cs).note)
             ELSE tl)
TotalLength(tracks) == TotalLengthFrom(Contribs(tracks), FZero)

\* (total_length * sample_rate as f64).ceil() as u32
NumSamples(total, rate) == FToU32(FCeil(FMul(total, NatToF(rate))))

NumChannels(stereo) == IF stereo THEN 2 ELSE 1
sample_bytes == 2
PadSize(ds) == IF 0 \in ds THEN 1 ELSE 0

\* Lines 98-107.  Each u32 operation is computed exactly; "overflow" says
\* whether any of them leaves u32, and the fields hold the wrapped values.
Sizes(tracks, rate, stereo) ==
    LET tl  == TotalLength(tracks)
        ns  == NumSamples(tl, rate)
        ch  == NumChannels(stereo)
        d1  == BMul(ns, ToBits(ch))
        d2  == BMul(U32Wrap(d1), ToBits(sample_bytes))
        ds  == U32Wrap(d2)
        c1  == BAdd(ToBits(36), ds)
        c2  == BAdd(U32Wrap(c1), ToBits(PadSize(ds)))
        wcs == U32Wrap(c2)
        fs  == BAdd(wcs, ToBits(8))
        b1  == BMul(rate, ToBits(sample_bytes))
        b2  == BMul(U32Wrap(b1), ToBits(ch))
    IN  [total_length |-> tl, num_samples |-> ns, num_channels |-> ch,
         data_size |-> ds, wave_chunk_size |-> wcs,
         file_size |-> U32Wrap(fs), byte_rate |-> U32Wrap(b2),
         block_align |-> sample_bytes * ch, sample_bits |-> 8 * sample_bytes,
         overflow |-> \E P \in {d1, d2, c1, c2, fs, b1, b2} : U32Overflows(P)]

\* The thirteen slices the header is written from (lines 117-130).
HeaderSlices(sz, rate) == <<
    <<82, 73, 70, 70>>,
    U32LeBytes(sz.wave_chunk_size),
    <<87, 65, 86, 69>>,
    <<102, 109, 116, 32>>,
    U32LeBytes(ToBits(16)),
    <<1, 0>>,
    U16LeBytes(sz.num_channels),
    U32LeBytes(rate),
    U32LeBytes(sz.byte_rate),
    U16LeBytes(sz.block_align),
    U16LeBytes(sz.sample_bits),
    <<100, 97, 116, 97>>,
    U32LeBytes(sz.data_size) >>

----------------------------------------------------------------------------
(* Mixing and quantizing (main.rs 133-163)                                 *)

\* (note.duration * sample_rate as f64) as usize
NoteLen(note, rate) == FToUsize(FMul(note.duration, NatToF(rate)))
\* (note.start * sample_rate as f64) as usize
StartIdx(note, rate) == FToUsize(FMul(note.start, NatToF(rate)))

\* The sample at index k (from 0) of the note's local array, lines 138-149.
NoteSample(c, rate, k) ==
    LET t == FDiv(IntToF(k), NatToF(rate))
    IN  FMul(c.note.volume, Oscillator(c.instrument, t, c.note.freq))

note_samples(c, rate) ==
    [k \in 1..FromBits(NoteLen(c.note, rate)) |-> NoteSample(c, rate, k - 1)]

sample_max == 32767
\* Rounding to the nearest integer; a wrong variant of Quantize.
Quantize_Round(sample) ==
    FToI16(FFloor(FAdd(FMul(IntToF(32767), FClamp(sample, FNeg(FOne), FOne)),
                       F64(FALSE, {-1}))))

\* (sample_max * sample.clamp(-1.0, 1.0)).floor() as i16
Quantize(sample) ==
    FToI16(FFloor(FMul(IntToF(sample_max), FClamp(sample, FNeg(FOne), FOne))))

\* The inner loop of lines 160-162: val_bytes written once per channel.
RECURSIVE WriteChannels(_, _, _, _)
WriteChannels(fd, cur, val_bytes, n) ==
    IF n = 0 THEN [panic |-> FALSE, file_data |-> fd, i |-> cur]
    ELSE LET w == write_slice(fd, cur, val_bytes)
         IN  IF w.panic THEN w
             ELSE WriteChannels(w.file_data, w.i, val_bytes, n - 1)

----------------------------------------------------------------------------
(* The inputs                                                              *)

\* Bounds of the note grid, in half seconds, and of the mixed songs.
MaxStart == 1
MaxDur == 3
MaxMix == 3

Half(k) == F64(FALSE, Shl(ToBits(k), -1))
Tiny == F64(FALSE, {-60})
Instruments == {"Sine", "Square", "Saw"}
Freqs == {Half(1), F64(FALSE, {-1, -2})}
Volumes == {Half(1)}
SmallRates == {ToBits(1), ToBits(2), ToBits(3)}

Note(f, v, s, d) == [freq |-> f, volume |-> v, start |-> s, duration |-> d]
Track(ins, ns) == [instrument |-> ins, notes |-> ns]

GridNotes == {Note(f, v, Half(s), Half(d)) :
                 f \in Freqs, v \in Volumes, s \in 0..MaxStart, d \in 0..MaxDur}

\* One track, one note: every instrument over the whole grid.
SoloSongs == {<<Track(ins, <<nt>>)>> : ins \in Instruments, nt \in GridNotes}

\* Overlapping notes, one track each, in every order and with repeats.
MixTracks == {
    Track("Square", <<Note(Half(1), FOne, FZero, Half(2))>>),
    Track("Saw",    <<Note(Half(1), FOne, FZero, Half(2))>>),
    Track("Saw",    <<Note(Half(1), Tiny, FZero, Half(2))>>) }
MixSongs == UNION {[1..m -> MixTracks] : m \in 2..MaxMix}

\* 0.5 / 32767.0, half of one quantization step.
HalfStep == Dbl(FALSE, 67110912, 4194432, -68)

\* The f64 nearest 1/3: 3.0 times it rounds up to 1.0.
Third == Dbl(FALSE, 89478485, 22369621, -54)

\* No tracks, tracks without notes, two notes inside one track, a note half
\* a quantization step loud, notes whose products with the rate are rounded,
\* and notes with a negative start or duration, which nothing in the code
\* rejects.
OtherSongs == {
    <<>>,
    <<Track("Sine", <<>>)>>,
    <<Track("Saw", <<>>), Track("Square", <<Note(Half(1), FOne, Half(1), Half(1))>>)>>,
    <<Track("Square", <<Note(Half(1), FOne, Half(1), Half(3)),
                        Note(Half(1), FOne, FZero, Half(2))>>)>>,
    <<Track("Sine", <<Note(Half(1), FOne, FZero, Half(4)),
                      Note(Half(1), FOne, FZero, Half(4))>>)>>,
    <<Track("Square", <<Note(Half(1), HalfStep, FZero, Half(2))>>)>>,
    <<Track("Square", <<Note(Half(1), FOne, Third, Third)>>)>>,
    <<Track("Saw", <<Note(Half(1), FOne, Third, Third),
                     Note(Half(1), FOne, FZero, Third)>>)>>,
    <<Track("Square", <<Note(Half(1), FOne, FNeg(FOne), Half(6))>>)>>,
    <<Track("Square", <<Note(Half(1), FOne, FZero, Half(6))>>),
      Track("Square", <<Note(Half(1), FOne, FNeg(FOne), Half(4))>>)>>,
    <<Track("Saw", <<Note(Half(1), FOne, Half(10), FNeg(FOne))>>)>> }

SmallSongs == SoloSongs \cup MixSongs \cup OtherSongs

\* Inputs at the limits of u32: sample rates near 2^32 with nothing to
\* render, a note beyond 2^32 samples, and a square wave whose half-period
\* count passes 2^32.
LargeCases == {
    [tracks |-> <<>>, rate |-> {30}],
    [tracks |-> <<>>, rate |-> {31}],
    [tracks |-> <<>>, rate |-> U32Max],
    [tracks |-> <<Track("Saw", <<Note(Half(1), FOne, FZero, FZero)>>)>>, rate |-> {31}],
    [tracks |-> <<Track("Sine", <<Note(Half(1), FOne, F64(FALSE, {32}), FOne)>>)>>,
     rate |-> ToBits(1)],
    [tracks |-> <<Track("Square", <<Note(F64(FALSE, {30}), FOne, FZero, Half(3))>>)>>,
     rate |-> ToBits(2)],
    [tracks |-> <<Track("Square", <<Note(F64(FALSE, {31, 0}), FOne, FZero, Half(3))>>)>>,
     rate |-> ToBits(2)],
    [tracks |-> <<Track("Square", <<Note(F64(FALSE, {32}), FOne, FZero, Half(3))>>)>>,
     rate |-> ToBits(2)] }

Cases == {[tracks |-> s, rate |-> r] : s \in SmallSongs, r \in SmallRates}
         \cup LargeCases

OldFile == [exists |-> TRUE, bytes |-> <<7, 7>>]
NoFile == [exists |-> FALSE, bytes |-> <<>>]

----------------------------------------------------------------------------
(* Song::write as a state machine                                          *)

VARIABLES
    tracks,        \* self.tracks
    sample_rate,   \* info.sample_rate, a u32
    stereo,        \* info.stereo
    file,          \* the file at info.filepath
    io,            \* the file system calls made so far, with their results
    pc,            \* where write is: create, sizes, header, mix, quantize,
                   \* write, done
    result,        \* running, or how write ended: Ok, Err, panic
    panic_at,      \* the line that panicked
    sz,            \* the locals of lines 88-107
    file_data,     \* the byte buffer
    i,             \* the cursor of write_slice
    sample_data,   \* the mixed samples
    pos,           \* the position in the loop that pc names
    m_dst, m_src, m_fn, m_old, m_k, m_pc   \* one call of merge, see below

writeVars == <<tracks, sample_rate, stereo, file, io, pc, result, panic_at,
               sz, file_data, i, sample_data, pos>>
mergeVars == <<m_dst, m_src, m_fn, m_old, m_k, m_pc>>
vars == <<writeVars, mergeVars>>

Zeros(n, z) == [k \in 1..n |-> z]
NoSizes == [total_length |-> FZero]

MergeIdle ==
    /\ m_dst = <<>> /\ m_src = <<>> /\ m_fn = "overwrite" /\ m_old = <<>>
    /\ m_k = 0 /\ m_pc = "idle"

Init ==
    /\ \E c \in Cases : tracks = c.tracks /\ sample_rate = c.rate
    /\ stereo \in BOOLEAN
    /\ file \in {NoFile, OldFile}
    /\ io = <<>>
    /\ pc = "create" /\ result = "running" /\ panic_at = "none"
    /\ sz = NoSizes /\ file_data = <<>> /\ i = 0 /\ sample_data = <<>>
    /\ pos = 0
    /\ MergeIdle

Panic(where) ==
    /\ result' = "panic" /\ panic_at' = where /\ pc' = "done"

\* Line 87: File::create(&info.filepath)?  It creates the file or truncates
\* the one that is there; on an error write returns it.
CreateFile ==
    /\ pc = "create"
    /\ \E ok \in BOOLEAN :
         /\ io' = Append(io, [op |-> "create", ok |-> ok])
         /\ IF ok THEN /\ file' = [exists |-> TRUE, bytes |-> <<>>]
                       /\ pc' = "sizes"
                       /\ UNCHANGED result
                 ELSE /\ UNCHANGED file
                      /\ result' = "Err"
                      /\ pc' = "done"
    /\ UNCHANGED <<tracks, sample_rate, stereo, panic_at, sz, file_data, i,
                   sample_data, pos, mergeVars>>

\* Lines 88-110.  A build with overflow checks panics at the first u32
\* operation that overflows; one without them goes on with wrapped values.
ComputeSizes ==
    /\ pc = "sizes"
    /\ \E checks \in BOOLEAN :
         LET s == Sizes(tracks, sample_rate, stereo)
         IN  IF checks /\ s.overflow
             THEN /\ Panic("overflow")
                  /\ UNCHANGED <<sz, file_data, i, pos>>
             ELSE /\ sz' = s
                  /\ file_data' = Zeros(FromBits(s.file_size), 0)
                  /\ i' = 0
                  /\ pc' = "header" /\ pos' = 0
                  /\ UNCHANGED <<result, panic_at>>
    /\ UNCHANGED <<tracks, sample_rate, stereo, file, io, sample_data, mergeVars>>

\* The loop that follows the header or the mixing: none when it is empty.
AfterHeader == IF Contribs(tracks) = <<>> THEN
                   (IF sz.num_samples = {} THEN "write" ELSE "quantize")
               ELSE "mix"
AfterMix == IF sz.num_samples = {} THEN "write" ELSE "quantize"

\* Lines 117-130: the slices written one after the other, up to a panic.
RECURSIVE WriteSlices(_, _, _)
WriteSlices(fd, cur, slices) ==
    IF slices = <<>> THEN [panic |-> FALSE, file_data |-> fd, i |-> cur]
    ELSE LET w == write_slice(fd, cur, Head(slices))
         IN  IF w.panic THEN w
             ELSE WriteSlices(w.file_data, w.i, Tail(slices))

\* Lines 117-133: the header, then the allocation of sample_data.
WriteHeader ==
    /\ pc = "header"
    /\ LET w == WriteSlices(file_data, i, HeaderSlices(sz, sample_rate))
       IN  /\ file_data' = w.file_data
           /\ i' = w.i
           /\ IF w.panic
              THEN /\ Panic("write_slice")
                   /\ UNCHANGED <<pos, sample_data>>
              ELSE /\ sample_data' = Zeros(FromBits(sz.num_samples), FZero)
                   /\ pc' = AfterHeader
                   /\ pos' = 1
                   /\ UNCHANGED <<result, panic_at>>
    /\ UNCHANGED <<tracks, sample_rate, stereo, file, io, sz, mergeVars>>

\* Lines 135-153 for one note: its samples are computed, then added into
\* sample_data[start_idx .. start_idx + len).
MixNote ==
    /\ pc = "mix"
    /\ LET c     == Contribs(tracks)[pos]
           start == StartIdx(c.note, sample_rate)
           stop  == BAdd(start, NoteLen(c.note, sample_rate))
       IN  IF BLt(ToBits(Len(sample_data)), stop)
           THEN /\ Panic("mix")
                /\ UNCHANGED <<sample_data, pos>>
           ELSE LET m == merge_slice(sample_data, FromBits(start),
                                     note_samples(c, sample_rate), "add")
                IN  IF m.panic
                    THEN /\ Panic("merge")
                         /\ UNCHANGED <<sample_data, pos>>
                    ELSE /\ sample_data' = m.vec
                         /\ UNCHANGED <<result, panic_at>>
                         /\ IF pos < Len(Contribs(tracks))
                            THEN pos' = pos + 1 /\ UNCHANGED pc
                            ELSE pos' = 1 /\ pc' = AfterMix
    /\ UNCHANGED <<tracks, sample_rate, stereo, file, io, sz, file_data, i,
                   mergeVars>>

\* Lines 157-163 for one sample.
QuantizeSample ==
    /\ pc = "quantize"
    /\ LET val == Quantize(sample_data[pos])
           w   == WriteChannels(file_data, i, I16LeBytes(val), sz.num_channels)
       IN  IF w.panic
           THEN /\ Panic("write_slice")
                /\ file_data' = w.file_data
                /\ i' = w.i
                /\ UNCHANGED pos
           ELSE /\ file_data' = w.file_data
                /\ i' = w.i
                /\ UNCHANGED <<result, panic_at>>
                /\ IF pos < Len(sample_data)
                   THEN pos' = pos + 1 /\ UNCHANGED pc
                   ELSE pos' = 0 /\ pc' = "write"
    /\ UNCHANGED <<tracks, sample_rate, stereo, file, io, sz, sample_data,
                   mergeVars>>

\* What file.write(&buf) may return: an error, or Ok(n) for the n bytes it
\* took, any n in 0..len.
WriteReturns(len) == {[err |-> TRUE, n |-> 0]}
                     \cup {[err |-> FALSE, n |-> k] : k \in 0..len}

\* Lines 165-167: file.write(&file_data); Ok(()).  The value write returns
\* is dropped.
FileWrite ==
    /\ pc = "write"
    /\ \E r \in WriteReturns(Len(file_data)) :
         /\ io' = Append(io, [op |-> "write", ret |-> r])
         /\ file' = [exists |-> TRUE,
                     bytes |-> SubSeq(file_data, 1, r.n)]
    /\ result' = "Ok"
    /\ pc' = "done"
    /\ UNCHANGED <<tracks, sample_rate, stereo, panic_at, sz, file_data, i,
                   sample_data, pos, mergeVars>>

Next == CreateFile \/ ComputeSizes \/ WriteHeader \/ MixNote \/ QuantizeSample
        \/ FileWrite

Spec == Init /\ [][Next]_vars


----------------------------------------------------------------------------
(* One call of merge, step by step (main.rs 53-60)                         *)

MaxMergeLen == 2

MergeElems == {FZero, FOne, F64(TRUE, {-1})}
MergeSeqs == UNION {[1..n -> MergeElems] : n \in 0..MaxMergeLen}

\* The range of the loop of line 57.
merge_len(dst, src) == Len(dst)

WriteIdle ==
    /\ tracks = <<>> /\ sample_rate = {} /\ stereo = FALSE
    /\ file = NoFile /\ io = <<>>
    /\ pc = "idle" /\ result = "running" /\ panic_at = "none"
    /\ sz = NoSizes /\ file_data = <<>> /\ i = 0 /\ sample_data = <<>>
    /\ pos = 0

InitMerge ==
    /\ m_dst \in MergeSeqs
    /\ m_src \in MergeSeqs
    /\ m_fn \in {"overwrite", "add"}
    /\ m_old = [dst |-> m_dst, src |-> m_src]
    /\ m_k = 0
    /\ m_pc = "check"
    /\ WriteIdle

\* Lines 54-56.
MergeCheck ==
    /\ m_pc = "check"
    /\ m_pc' = IF merge_mismatch(m_dst, m_src) THEN "panic"
               ELSE IF merge_len(m_dst, m_src) = 0 THEN "done" ELSE "loop"
    /\ UNCHANGED <<m_dst, m_src, m_fn, m_old, m_k, writeVars>>

\* Line 58 for i = m_k.
MergeStep ==
    /\ m_pc = "loop"
    /\ m_dst' = [m_dst EXCEPT ![m_k + 1] = Apply(m_fn, m_dst[m_k + 1], m_src[m_k + 1])]
    /\ m_k' = m_k + 1
    /\ m_pc' = IF m_k + 1 < merge_len(m_dst, m_src) THEN "loop" ELSE "done"
    /\ UNCHANGED <<m_src, m_fn, m_old, writeVars>>

NextMerge == MergeCheck \/ MergeStep

SpecMerge == InitMerge /\ [][NextMerge]_vars

----------------------------------------------------------------------------
(* What the claims read off a state                                        *)

\* The u32 (as a bit set) in the four bytes of buf from offset off (from 0).
LeBits(buf, off, n) ==
    UNION {Shl(ToBits(buf[off + 1 + j]), 8 * j) : j \in 0..(n - 1)}
\* The i16 in the two bytes of buf from offset off.
LeI16(buf, off) ==
    LET u == buf[off + 1] + 256 * buf[off + 2]
    IN  IF u >= 32768 THEN u - 65536 ELSE u

\* The byte buffer is complete: every sample has been written.
BufferBuilt == pc = "write" \/ result = "Ok"
\* sample_data holds every note.
Mixed == pc \in {"quantize", "write"} \/ result = "Ok"
\* sample_data is allocated.
Mixing == pc = "mix" \/ Mixed
\* The frames written so far.
FramesWritten == IF pc = "quantize" THEN pos - 1
                 ELSE IF BufferBuilt THEN Len(sample_data) ELSE 0

Rate == NatToF(sample_rate)
Notes == Contribs(tracks)

\* The window of a note: the start_idx of line 151 and the length of line
\* 136, both `as usize` casts (0 for a negative product, saturating).
WinStart(c) == StartIdx(c.note, sample_rate)
WinLen(c) == NoteLen(c.note, sample_rate)
Covers(c, j) == /\ BLe(WinStart(c), ToBits(j))
                /\ BLt(ToBits(j), BAdd(WinStart(c), WinLen(c)))

\* The f64 sum, from 0.0 and in the order of cs, of what the notes of cs
\* that cover index j (from 0) contribute there.
RECURSIVE SumAt(_, _, _)
SumAt(cs, j, acc) ==
    IF cs = <<>> THEN acc
    ELSE SumAt(Tail(cs), j,
               IF Covers(Head(cs), j)
               THEN FAdd(acc, NoteSample(Head(cs), sample_rate,
                                         j - FromBits(WinStart(Head(cs)))))
               ELSE acc)

Perms(n) == {p \in [1..n -> 1..n] : \A a, b \in 1..n : p[a] = p[b] => a = b}
Reordered(cs, p) == [k \in 1..Len(cs) |-> cs[p[k]]]
MaxCover == IF sample_data = <<>> THEN 0
            ELSE MaxOf({Cardinality({k \in 1..Len(Notes) : Covers(Notes[k], j)}) :
                          j \in 0..(Len(sample_data) - 1)})

----------------------------------------------------------------------------
(* C1                                                                      *)

\* The sizes of lines 98-107 are computed.
SizesKnown == sz # NoSizes

\* C1: for every song, chunk_size is 36 + data_size + pad with pad being
\* data_size mod 2, and the byte buffer is chunk_size + 8 long; the cursor
\* never passes the end of the buffer, is 44 once the header is written and
\* 44 + 2 * channels * frames while the samples are, and is the length of
\* the buffer once every sample is written; a run that returns Ok has left
\* exactly chunk_size + 8 bytes in the file.
C1_BufferLength ==
    /\ i <= Len(file_data)
    /\ pc = "mix" => i = 44
    /\ pc = "quantize" => i = 44 + 2 * sz.num_channels * (pos - 1)
    /\ SizesKnown =>
         LET pad == IF 0 \in sz.data_size THEN ToBits(1) ELSE {}
         IN  /\ sz.wave_chunk_size = BAdd(BAdd(ToBits(36), sz.data_size), pad)
             /\ ToBits(Len(file_data)) = BAdd(sz.wave_chunk_size, ToBits(8))
    /\ BufferBuilt =>
         /\ i = Len(file_data)
         /\ LeBits(file_data, 40, 4) = sz.data_size
         /\ LeBits(file_data, 4, 4) = sz.wave_chunk_size
    /\ result = "Ok" => ToBits(Len(file.bytes)) = BAdd(sz.wave_chunk_size, ToBits(8))

----------------------------------------------------------------------------
(* C2                                                                      *)

\* C2: for any song, total_length is the largest start + duration of a note
\* (0 without notes), num_samples is the least integer not below
\* total_length * sample_rate, and the buffer is
\* 44 + 2 * channels * num_samples bytes; so 44 bytes, with data_size 0, for
\* a song without notes.
C2_NumSamples ==
    SizesKnown =>
      LET tr == FMul(sz.total_length, Rate)
          ch == IF stereo THEN 2 ELSE 1
      IN  /\ \A k \in 1..Len(Notes) :
               FLe(FAdd(Notes[k].note.start, Notes[k].note.duration), sz.total_length)
          /\ \/ sz.total_length = FZero
             \/ \E k \in 1..Len(Notes) :
                  sz.total_length = FAdd(Notes[k].note.start, Notes[k].note.duration)
          /\ sz.num_samples = FCeil(tr).bits
          /\ ToBits(Len(file_data))
               = BAdd(ToBits(44), BMul(sz.num_samples, ToBits(2 * ch)))
          /\ Mixing => Len(sample_data) = FromBits(sz.num_samples)
          /\ Notes = <<>> => sz.data_size = {} /\ Len(file_data) = 44

----------------------------------------------------------------------------
(* C3                                                                      *)

\* C3: the header of a file that write returned Ok for holds format tag 1,
\* the channel count, the sample rate, block_align = 2 * channels,
\* byte_rate = sample_rate * block_align and 16 bits per sample, each the
\* true value and not one wrapped to 32 bits.
C3_HeaderFields ==
    result = "Ok" =>
      LET ch == IF stereo THEN 2 ELSE 1
      IN  /\ LeBits(file_data, 20, 2) = ToBits(1)
          /\ LeBits(file_data, 22, 2) = ToBits(ch)
          /\ LeBits(file_data, 24, 4) = sample_rate
          /\ LeBits(file_data, 28, 4) = BMul(sample_rate, ToBits(2 * ch))
          /\ LeBits(file_data, 32, 2) = ToBits(2 * ch)
          /\ LeBits(file_data, 34, 2) = ToBits(16)
          /\ LeBits(file_data, 40, 4) = BMul(sz.num_samples, ToBits(2 * ch))

----------------------------------------------------------------------------
(* C4                                                                      *)

\* C4: for every note of any song the slice of sample_data that line 152
\* takes, [start_idx, start_idx + len) with start_idx = (start * R) as usize
\* and len = (duration * R) as usize, lies inside sample_data, and the
\* boundary is guarded: no run aborts at that slice or inside merge,
\* whatever the notes are.
C4_WindowInBuffer ==
    /\ pc \in {"mix", "quantize", "write"} => \A k \in 1..Len(Notes) :
                   BLe(BAdd(WinStart(Notes[k]), WinLen(Notes[k])),
                       ToBits(Len(sample_data)))
    /\ panic_at \notin {"mix", "merge"}

----------------------------------------------------------------------------
(* C5                                                                      *)

\* C5: write returns Ok only when the whole buffer is in the file, and an
\* error when the file cannot be created.
C5_NoFailureSwallowed ==
    /\ result = "Ok" => file.bytes = file_data
    /\ (io # <<>> /\ io[1] = [op |-> "create", ok |-> FALSE]) => result = "Err"

----------------------------------------------------------------------------
(* C6                                                                      *)

\* C6: merge called with slices of different lengths panics with dst as it
\* was, and never gets to the loop; called with equal lengths it ends with
\* dst[k] = merge_fn(old dst[k], src[k]) at every k, the elements beyond
\* the loop's position untouched on the way; src is never changed.
C6_Merge ==
    LET differ == Len(m_old.dst) # Len(m_old.src)
    IN  /\ m_src = m_old.src
        /\ differ => m_pc \in {"check", "panic"} /\ m_dst = m_old.dst
        /\ ~differ => m_pc # "panic"
        /\ m_pc \in {"loop", "done"} =>
             /\ Len(m_dst) = Len(m_old.dst)
             /\ \A k \in 1..Len(m_dst) :
                  m_dst[k] = IF k > m_k THEN m_old.dst[k]
                             ELSE IF m_fn = "add" THEN FAdd(m_old.dst[k], m_old.src[k])
                             ELSE m_old.src[k]
        /\ m_pc = "done" =>
             /\ m_k = Len(m_old.dst)
             /\ m_fn = "add" => m_dst = merge(m_old.dst, m_old.src, "add").dst
             /\ m_fn = "overwrite" => m_dst = merge(m_old.dst, m_old.src, "overwrite").dst

\* A call with two elements each has added them all.
C6_Witness ==
    /\ m_pc = "done" /\ m_fn = "add" /\ Len(m_dst) = 2
    /\ m_dst # m_old.dst

----------------------------------------------------------------------------
(* C7                                                                      *)

\* The notes mixed so far.
Done == IF pc = "mix" THEN pos - 1 ELSE IF Mixed THEN Len(Notes) ELSE 0

\* sample_data as mixing the notes cs in their order gives it.
RECURSIVE MixAll(_, _)
MixAll(cs, sd) ==
    IF cs = <<>> THEN sd
    ELSE MixAll(Tail(cs),
                merge_slice(sd, FromBits(StartIdx(Head(cs).note, sample_rate)),
                            note_samples(Head(cs), sample_rate), "add").vec)

\* C7 as claimed: the mixed buffer is the same for every order of the notes.
C7_AnyOrder ==
    pc = "write" =>
      \A p \in Perms(Len(Notes)) :
         MixAll(Reordered(Notes, p), Zeros(Len(sample_data), FZero)) = sample_data

\* C7 as amended: after each note is mixed, and when the buffer is handed
\* to the quantizer, every element of the buffer is the f64 sum, taken from
\* 0.0 in the order the notes are processed, of volume * oscillator over
\* the notes mixed so far whose window covers it, so 0.0 where none does
\* and exactly twice one note's value where two identical notes overlap;
\* the buffer is the same for every order of the notes when no index is
\* covered by more than two of them.
C7_Sum ==
    /\ pc \in {"mix", "write"} =>
         \A j \in 0..(Len(sample_data) - 1) :
            sample_data[j + 1] = SumAt(SubSeq(Notes, 1, Done), j, FZero)
    /\ (pc = "write" /\ MaxCover <= 2) =>
         \A p \in Perms(Len(Notes)) :
            MixAll(Reordered(Notes, p), Zeros(Len(sample_data), FZero)) = sample_data

\* Two identical notes overlap: the buffer holds twice the one note's value.
C7_Witness ==
    /\ pc = "write" /\ Len(Notes) = 2 /\ Notes[1] = Notes[2]
    /\ \E j \in 1..Len(sample_data) :
         /\ sample_data[j] # FZero
         /\ sample_data[j] = FMul(FTwo, NoteSample(Notes[1], sample_rate, j - 1))

----------------------------------------------------------------------------
(* C8                                                                      *)

\* C8: in the buffer as it is built and handed to file.write, every frame
\* written holds, in each of its channels, the two
\* little-endian bytes of q = floor(32767 * clamp(s, -1, 1)) for its sample
\* s: q is the integer with q <= 32767 * clamp(s) < q + 1, it lies in
\* -32767..32767, it is 32767 for s >= 1, -32767 for s <= -1 and 0 for
\* 0 <= s < 1/32767.
C8_Quantized ==
  pc \in {"quantize", "write"} =>
    \A f \in 1..FramesWritten :
       LET s == sample_data[f]
           y == FMul(IntToF(32767), FClamp(s, FNeg(FOne), FOne))
           q == LeI16(file_data, 44 + 2 * sz.num_channels * (f - 1))
       IN  /\ \A c \in 0..(sz.num_channels - 1) :
                LeI16(file_data, 44 + 2 * (sz.num_channels * (f - 1) + c)) = q
           /\ q >= -32767 /\ q <= 32767
           /\ FLe(IntToF(q), y) /\ FLt(y, IntToF(q + 1))
           /\ FLe(FOne, s) => q = 32767
           /\ FLe(s, FNeg(FOne)) => q = -32767
           /\ (~s.neg /\ FLt(FMul(s, IntToF(32767)), FOne)) => q = 0

\* A finished stereo buffer with a sample clipped at -1 and a negative one inside the
\* range that 32767 takes to no integer.
C8_Witness ==
    /\ pc = "write" /\ stereo
    /\ \E f \in 1..Len(sample_data) :
         /\ FLt(sample_data[f], FNeg(FOne))
         /\ LeI16(file_data, 44 + 4 * (f - 1)) = -32767
    /\ \E f \in 1..Len(sample_data) :
         LET q == LeI16(file_data, 44 + 4 * (f - 1))
         IN  /\ FLt(FNeg(FOne), sample_data[f]) /\ FLt(sample_data[f], FZero)
             /\ q = LeI16(file_data, 46 + 4 * (f - 1))
             /\ FLt(IntToF(q), FMul(IntToF(32767), sample_data[f]))
             /\ q < 0

----------------------------------------------------------------------------
(* C9                                                                      *)

\* C9: no file system call is made before the byte buffer is complete, so
\* a run that panics has made none, and the file is as it was.
C9_WriteOnly ==
    /\ (~BufferBuilt /\ result # "Err") => io = <<>>
    /\ result = "panic" => io = <<>> /\ file \in {NoFile, OldFile}

----------------------------------------------------------------------------
(* C10                                                                     *)

\* The sample times of the note being mixed.
MixTimes == IF pc = "mix"
            THEN {FDiv(IntToF(k), Rate) :
                    k \in 0..(FromBits(NoteLen(Notes[pos].note, sample_rate)) - 1)}
            ELSE {}

\* floor(t * 2.0 * freq), the signed f64 of line 144 before its cast: an
\* integer of any size, with its sign.
HalfPeriods(t, freq) == FFloor(FMul(FMul(t, FTwo), freq))

\* C10: the oscillator value of every sample of the note being mixed lies
\* in [-1, 1]; at t = 0 it is 0 for Sine, +1 for Square, -1 for Saw; Saw is
\* 2 * (x - floor(x)) - 1 for x = freq * t; Square is +1 exactly when
\* k = floor(2 * freq * t) is even and -1 when it is odd, however large k.
C10_Oscillator ==
    pc = "mix" =>
      LET ins == Notes[pos].instrument
          f   == Notes[pos].note.freq
      IN  \A t \in MixTimes :
            LET v == Oscillator(ins, t, f)
                x == FMul(t, f)
                k == HalfPeriods(t, f)
            IN  /\ FLe(FNeg(FOne), v) /\ FLe(v, FOne)
                /\ t = FZero => v = (CASE ins = "Sine" -> FZero
                                       [] ins = "Square" -> FOne
                                       [] ins = "Saw" -> FNeg(FOne))
                /\ ins = "Saw" => v = FSub(FMul(FTwo, FSub(x, FFloor(x))), FOne)
                /\ ins = "Square" =>
                     v = IF 0 \in k.bits THEN FNeg(FOne) ELSE FOne

=============================================================================
